---- MODULE Spec2Model ----
(***************************************************************************)
(* Model of the plant disease inference service (src/backend/app.py):      *)
(* the label catalog, the label decomposition, model loading with its      *)
(* fallback, PlantDiseaseModel.predict and the three HTTP handlers.        *)
(*                                                                         *)
(* Python strings are sequences of one-character strings, so that split,   *)
(* replace, lower, startswith and base64 decoding are computed rather than *)
(* assumed.  None is the empty sequence and a present value x is <<x>>.    *)
(***************************************************************************)
EXTENDS Integers, Sequences, FiniteSets, TLC

VARIABLES phase, model, lastReq, lastResp, pinned

vars == <<phase, model, lastReq, lastResp, pinned>>

None == <<>>
Some(x) == <<x>>

----------------------------------------------------------------------------
(* Python string primitives used by app.py                                 *)

UpperChars ==
  <<"A","B","C","D","E","F","G","H","I","J","K","L","M","N","O","P","Q","R","S","T","U","V","W","X","Y","Z">>
LowerChars ==
  <<"a","b","c","d","e","f","g","h","i","j","k","l","m","n","o","p","q","r","s","t","u","v","w","x","y","z">>

\* str.lower(), one character
LowerChar(c) ==
  IF \E i \in 1..Len(UpperChars) : UpperChars[i] = c
    THEN LowerChars[CHOOSE i \in 1..Len(UpperChars) : UpperChars[i] = c]
    ELSE c

\* str.lower()
Lower(s) == [i \in 1..Len(s) |-> LowerChar(s[i])]

\* s[i:].startswith(sub), i counted from 1
StartsWithAt(s, sub, i) ==
  /\ i + Len(sub) - 1 <= Len(s)
  /\ \A k \in 1..Len(sub) : s[i + k - 1] = sub[k]

\* s.startswith(sub)
StartsWith(s, sub) == StartsWithAt(s, sub, 1)

\* sub in s
Contains(s, sub) == \E i \in 1..(Len(s) + 1) : StartsWithAt(s, sub, i)

\* s.split(sep): leftmost, non-overlapping occurrences of sep
RECURSIVE SplitFrom(_, _, _, _)
SplitFrom(s, sep, i, cur) ==
  IF i > Len(s) THEN <<cur>>
  ELSE IF StartsWithAt(s, sep, i)
    THEN <<cur>> \o SplitFrom(s, sep, i + Len(sep), <<>>)
    ELSE SplitFrom(s, sep, i + 1, Append(cur, s[i]))

Split(s, sep) == SplitFrom(s, sep, 1, <<>>)

\* s.replace(old, new) for one-character old and new
Replace(s, old, new) == [i \in 1..Len(s) |-> IF s[i] = old THEN new ELSE s[i]]

HealthyStr == <<"h","e","a","l","t","h","y">>
Delimiter == <<"_","_","_">>

----------------------------------------------------------------------------
(* The label catalog, app.py lines 21-61                                   *)

CLASS_NAMES ==
  << <<"A","p","p","l","e","_","_","_","A","p","p","l","e","_","s","c","a","b">>,
     <<"A","p","p","l","e","_","_","_","B","l","a","c","k","_","r","o","t">>,
     <<"A","p","p","l","e","_","_","_","C","e","d","a","r","_","a","p","p","l","e","_","r","u","s","t">>,
     <<"A","p","p","l","e","_","_","_","h","e","a","l","t","h","y">>,
     <<"B","l","u","e","b","e","r","r","y","_","_","_","h","e","a","l","t","h","y">>,
     <<"C","h","e","r","r","y","_","(","i","n","c","l","u","d","i","n","g","_","s","o","u","r",")","_","_","_","h","e","a","l","t","h","y">>,
     <<"C","h","e","r","r","y","_","(","i","n","c","l","u","d","i","n","g","_","s","o","u","r",")","_","_","_","P","o","w","d","e","r","y","_","m","i","l","d","e","w">>,
     <<"C","o","r","n","_","(","m","a","i","z","e",")","_","_","_","C","e","r","c","o","s","p","o","r","a","_","l","e","a","f","_","s","p","o","t"," ","G","r","a","y","_","l","e","a","f","_","s","p","o","t">>,
     <<"C","o","r","n","_","(","m","a","i","z","e",")","_","_","_","C","o","m","m","o","n","_","r","u","s","t","_">>,
     <<"C","o","r","n","_","(","m","a","i","z","e",")","_","_","_","h","e","a","l","t","h","y">>,
     <<"C","o","r","n","_","(","m","a","i","z","e",")","_","_","_","N","o","r","t","h","e","r","n","_","L","e","a","f","_","B","l","i","g","h","t">>,
     <<"G","r","a","p","e","_","_","_","B","l","a","c","k","_","r","o","t">>,
     <<"G","r","a","p","e","_","_","_","E","s","c","a","_","(","B","l","a","c","k","_","M","e","a","s","l","e","s",")">>,
     <<"G","r","a","p","e","_","_","_","h","e","a","l","t","h","y">>,
     <<"G","r","a","p","e","_","_","_","L","e","a","f","_","b","l","i","g","h","t","_","(","I","s","a","r","i","o","p","s","i","s","_","L","e","a","f","_","S","p","o","t",")">>,
     <<"O","r","a","n","g","e","_","_","_","H","a","u","n","g","l","o","n","g","b","i","n","g","_","(","C","i","t","r","u","s","_","g","r","e","e","n","i","n","g",")">>,
     <<"P","e","a","c","h","_","_","_","B","a","c","t","e","r","i","a","l","_","s","p","o","t">>,
     <<"P","e","a","c","h","_","_","_","h","e","a","l","t","h","y">>,
     <<"P","e","p","p","e","r",",","_","b","e","l","l","_","_","_","B","a","c","t","e","r","i","a","l","_","s","p","o","t">>,
     <<"P","e","p","p","e","r",",","_","b","e","l","l","_","_","_","h","e","a","l","t","h","y">>,
     <<"P","o","t","a","t","o","_","_","_","E","a","r","l","y","_","b","l","i","g","h","t">>,
     <<"P","o","t","a","t","o","_","_","_","h","e","a","l","t","h","y">>,
     <<"P","o","t","a","t","o","_","_","_","L","a","t","e","_","b","l","i","g","h","t">>,
     <<"R","a","s","p","b","e","r","r","y","_","_","_","h","e","a","l","t","h","y">>,
     <<"S","o","y","b","e","a","n","_","_","_","h","e","a","l","t","h","y">>,
     <<"S","q","u","a","s","h","_","_","_","P","o","w","d","e","r","y","_","m","i","l","d","e","w">>,
     <<"S","t","r","a","w","b","e","r","r","y","_","_","_","h","e","a","l","t","h","y">>,
     <<"S","t","r","a","w","b","e","r","r","y","_","_","_","L","e","a","f","_","s","c","o","r","c","h">>,
     <<"S","t","r","a","w","b","e","r","r","y","_","_","_","h","e","a","l","t","h","y">>,
     <<"T","o","m","a","t","o","_","_","_","B","a","c","t","e","r","i","a","l","_","s","p","o","t">>,
     <<"T","o","m","a","t","o","_","_","_","E","a","r","l","y","_","b","l","i","g","h","t">>,
     <<"T","o","m","a","t","o","_","_","_","L","a","t","e","_","b","l","i","g","h","t">>,
     <<"T","o","m","a","t","o","_","_","_","L","e","a","f","_","M","o","l","d">>,
     <<"T","o","m","a","t","o","_","_","_","S","e","p","t","o","r","i","a","_","l","e","a","f","_","s","p","o","t">>,
     <<"T","o","m","a","t","o","_","_","_","S","p","i","d","e","r","_","m","i","t","e","s"," ","T","w","o","-","s","p","o","t","t","e","d","_","s","p","i","d","e","r","_","m","i","t","e">>,
     <<"T","o","m","a","t","o","_","_","_","T","a","r","g","e","t","_","S","p","o","t">>,
     <<"T","o","m","a","t","o","_","_","_","T","o","m","a","t","o","_","Y","e","l","l","o","w","_","L","e","a","f","_","C","u","r","l","_","V","i","r","u","s">>,
     <<"T","o","m","a","t","o","_","_","_","T","o","m","a","t","o","_","m","o","s","a","i","c","_","v","i","r","u","s">>,
     <<"T","o","m","a","t","o","_","_","_","h","e","a","l","t","h","y">> >>

NumClasses == Len(CLASS_NAMES)

----------------------------------------------------------------------------
(* Label decomposition, app.py lines 114-121                               *)

\* _extract_plant_type as it would be without its replace('_', ' ')
ExtractPlantTypeUnspaced(class_name) == Split(class_name, Delimiter)[1]

\* _extract_plant_type, lines 114-115

extract_plant_type(class_name) ==
  Replace(Split(class_name, Delimiter)[1], "_", " ")

\* _extract_disease_type, lines 117-121
extract_disease_type(class_name) ==
  LET parts == Split(class_name, Delimiter)
  IN IF Len(parts) > 1 /\ ~Contains(Lower(parts[2]), HealthyStr)
       THEN Some(Replace(parts[2], "_", " "))
       ELSE None

\* the record PlantDiseaseModel.predict returns, lines 103-109
DiagnosisResult(predicted_class, confidence_score) ==
  [ className   |-> predicted_class,
    confidence  |-> confidence_score,
    isHealthy   |-> Contains(Lower(predicted_class), HealthyStr),
    plantType   |-> extract_plant_type(predicted_class),
    diseaseType |-> IF ~Contains(Lower(predicted_class), HealthyStr)
                      THEN extract_disease_type(predicted_class)
                      ELSE None ]

----------------------------------------------------------------------------
(* base64.b64decode and Image.open as called at app.py lines 144-145, 178   *)

B64Chars ==
  <<"A","B","C","D","E","F","G","H","I","J","K","L","M","N","O","P","Q","R","S","T","U","V","W","X","Y","Z","a","b","c","d","e","f","g","h","i","j","k","l","m","n","o","p","q","r","s","t","u","v","w","x","y","z","0","1","2","3","4","5","6","7","8","9","+","/">>

IsB64Char(c) == \E i \in 1..Len(B64Chars) : B64Chars[i] = c

\* the 6-bit value of an alphabet character
B64Val(c) == (CHOOSE i \in 1..Len(B64Chars) : B64Chars[i] = c) - 1

\* binascii.a2b_base64, non-strict: characters outside the alphabet are
\* skipped, a completed pad sequence ends the parse, a dangling quad is an error
RECURSIVE A2bBase64(_, _, _, _, _, _)
A2bBase64(s, i, quad_pos, leftchar, pads, out) ==
  IF i > Len(s)
    THEN [ok |-> quad_pos = 0, bytes |-> IF quad_pos = 0 THEN out ELSE <<>>]
  ELSE IF s[i] = "="
    THEN IF quad_pos >= 2 /\ quad_pos + pads + 1 >= 4
           THEN [ok |-> TRUE, bytes |-> out]
           ELSE A2bBase64(s, i + 1, quad_pos, leftchar,
                          IF quad_pos >= 2 THEN pads + 1 ELSE pads, out)
  ELSE IF ~IsB64Char(s[i])
    THEN A2bBase64(s, i + 1, quad_pos, leftchar, pads, out)
  ELSE LET v == B64Val(s[i]) IN
    CASE quad_pos = 0 -> A2bBase64(s, i + 1, 1, v, 0, out)
      [] quad_pos = 1 ->
           A2bBase64(s, i + 1, 2, v % 16, 0, Append(out, leftchar * 4 + (v \div 16)))
      [] quad_pos = 2 ->
           A2bBase64(s, i + 1, 3, v % 4, 0, Append(out, leftchar * 16 + (v \div 4)))
      [] quad_pos = 3 ->
           A2bBase64(s, i + 1, 0, 0, 0, Append(out, leftchar * 64 + v))

\* base64.b64decode(image_data)
b64decode(image_data) == A2bBase64(image_data, 1, 0, 0, 0, <<>>)

\* Image.open identifies a file by its leading bytes; the formats it knows
\* are represented by these leading byte values
ImageMagic == {1, 2}

\* Image.open(io.BytesIO(b)).convert('RGB') succeeds
IsImage(b) == Len(b) >= 1 /\ b[1] \in ImageMagic

----------------------------------------------------------------------------
(* The loaded model, app.py lines 63-112                                   *)

\* one more and one fewer output than the catalog has labels, and the same
OutDimSlack == 1
LoadedOutDims == (NumClasses - OutDimSlack)..(NumClasses + OutDimSlack)

\* confidence is kept in hundredths
ConfScale == 100

Module(kind, outDim, w, forwardOk) ==
  [kind |-> kind, outDim |-> outDim, w |-> w, forwardOk |-> forwardOk]

\* what plant_disease_model.pth may hold: nothing readable, a pickled object
\* that is no module (a state dict), or a pickled module of any output width
ModelFiles ==
  {[content |-> "unreadable", module |-> None],
   [content |-> "state_dict", module |-> None]}
  \cup UNION {{[content |-> "module", module |-> Some(Module("loaded", d, w, TRUE))] :
                  w \in 0..(d - 1)} : d \in LoadedOutDims}
  \cup {[content |-> "module", module |-> Some(Module("loaded", NumClasses, 0, FALSE))]}

\* the except branch as it would be if it only logged the failure
DummyModelUnset(seed) == None

\* the except branch of load_model, lines 84-86: resnet18 with a fresh final
\* layer of len(CLASS_NAMES) outputs; seed stands for its random initialisation
DummyModel(seed) == Some(Module("dummy", NumClasses, seed, TRUE))

\* load_model, lines 75-87: the value of self.model when it returns
load_model(file, seed) ==
  IF file.content = "module"
    THEN file.module
    ELSE DummyModel(seed)

\* the image as the network sees it: a number derived from its bytes
RECURSIVE SumBytes(_)
SumBytes(b) == IF b = <<>> THEN 0 ELSE Head(b) + SumBytes(Tail(b))

\* torch.max(softmax(self.model(x)))[1]: the index of the largest output,
\* a fixed function of the weights and the image
Argmax(m, image) == (m.w + SumBytes(image)) % m.outDim

\* torch.max(softmax(self.model(x)))[0]: the largest probability, which is
\* at least 1/outDim and at most 1
Confidence(m, image) ==
  LET low == (ConfScale + m.outDim - 1) \div m.outDim
  IN low + ((7 * m.w + 13 * SumBytes(image)) % (ConfScale - low + 1))

\* PlantDiseaseModel.predict, lines 89-112: None stands for the except branch
PlantDiseaseModel_predict(mdl, image) ==
  IF mdl = None THEN None
  ELSE LET m == mdl[1] IN
    IF ~m.forwardOk THEN None
    ELSE IF Argmax(m, image) >= NumClasses THEN None
    ELSE Some(DiagnosisResult(CLASS_NAMES[Argmax(m, image) + 1], Confidence(m, image)))

\* self.model after a predict that took a training step on the weights
SelfModelAfterPredictUpdated(mdl) ==
  IF mdl = None THEN mdl
  ELSE Some([mdl[1] EXCEPT !.w = (mdl[1].w + 1) % mdl[1].outDim])

\* self.model once PlantDiseaseModel.predict has returned: predict assigns
\* nothing to self and runs the network under torch.no_grad()
SelfModelAfterPredict(mdl) == mdl

----------------------------------------------------------------------------
(* HTTP responses: status and JSON body, with the calls the handler made    *)

Response(status, error, result, health, invoked, fetches) ==
  [ status  |-> status,     \* HTTP status code
    error   |-> error,      \* the parts of the "error" text, <<>> if none
    result  |-> result,     \* the DiagnosisResult of a 200 answer, if any
    health  |-> health,     \* the body of a /health answer, if any
    invoked |-> invoked,    \* calls of model_service.predict
    fetches |-> fetches ]   \* calls of requests.get

\* the handlers' tail as it would be without the test of result
AnswerPredictionAlways200(mdl, image, fetches) ==
  Response(200, None, PlantDiseaseModel_predict(mdl, image), None, 1, fetches)

\* the tail both handlers share, lines 148-153 and 181-186
AnswerPrediction(mdl, image, fetches) ==
  LET result == PlantDiseaseModel_predict(mdl, image)
  IN IF result # None
       THEN Response(200, None, result, None, 1, fetches)
       ELSE Response(500, <<"Prediction failed">>, None, None, 1, fetches)

\* GET /health, lines 126-128
health_check(mdl) ==
  Response(200, None, None,
           Some([status |-> "healthy", model_loaded |-> mdl # None]), 0, 0)

DataImagePrefix == <<"d","a","t","a",":","i","m","a","g","e">>

\* lines 140-142 as they would be if the header were left in place
StripDataUrlKeepAll(image_data) == [ok |-> TRUE, text |-> image_data]

\* lines 140-142: drop the data-URL header; ok = FALSE is the IndexError of
\* split(',')[1] on a text without a comma
StripDataUrl(image_data) ==
  IF StartsWith(image_data, DataImagePrefix)
    THEN LET parts == Split(image_data, <<",">>)
         IN IF Len(parts) >= 2 THEN [ok |-> TRUE, text |-> parts[2]]
                               ELSE [ok |-> FALSE, text |-> <<>>]
    ELSE [ok |-> TRUE, text |-> image_data]

\* POST /predict, lines 130-157.  body.kind is what request.get_json() gave:
\* "null" (None), "list", "nofield" (an object without 'image'), "num" (an
\* object whose 'image' is a number), "str" (an object whose 'image' is text)
predict(body, mdl) ==
  CASE body.kind = "null" ->
         Response(500, <<"argument of type 'NoneType' is not iterable">>, None, None, 0, 0)
    [] body.kind \in {"list", "nofield"} ->
         Response(400, <<"No image provided">>, None, None, 0, 0)
    [] body.kind = "num" ->
         Response(500, <<"'int' object has no attribute 'startswith'">>, None, None, 0, 0)
    [] body.kind = "str" ->
         LET stripped == StripDataUrl(body.text)
             decoded  == b64decode(stripped.text)
         IN IF ~stripped.ok
              THEN Response(500, <<"list index out of range">>, None, None, 0, 0)
            ELSE IF ~decoded.ok
              THEN Response(500, <<"Incorrect padding">>, None, None, 0, 0)
            ELSE IF ~IsImage(decoded.bytes)
              THEN Response(500, <<"cannot identify image file">>, None, None, 0, 0)
            ELSE AnswerPrediction(mdl, decoded.bytes, 0)

\* the answer a download failure would get from the generic handler
DownloadFailedAs500(exc) ==
  Response(500, <<"Failed to download image: ", exc>>, None, None, 0, 1)

\* the handler of requests.exceptions.RequestException, lines 188-190
DownloadFailed(exc) ==
  Response(400, <<"Failed to download image: ", exc>>, None, None, 0, 1)

\* POST /predict_url, lines 159-193.  net is what requests.get(url, timeout=10)
\* followed by raise_for_status() does: one of the RequestException kinds, or
\* "ok" with the response content
predict_from_url(body, net, mdl) ==
  CASE body.kind = "null" ->
         Response(500, <<"argument of type 'NoneType' is not iterable">>, None, None, 0, 0)
    [] body.kind \in {"list", "nofield"} ->
         Response(400, <<"No image URL provided">>, None, None, 0, 0)
    [] body.kind = "url" ->
         IF net.kind # "ok"
           THEN DownloadFailed(net.kind)
         ELSE IF ~IsImage(net.content)
           THEN Response(500, <<"cannot identify image file">>, None, None, 0, 1)
         ELSE AnswerPrediction(mdl, net.content, 1)

----------------------------------------------------------------------------
(* Request inputs                                                          *)

DataUrlHeader ==
  <<"d","a","t","a",":","i","m","a","g","e","/","p","n","g",";","b","a","s","e","6","4",",">>

\* base64 texts: of an image (bytes 1 and 2), of bytes that are no image,
\* of nothing, and one with its padding missing
B64Texts ==
  { <<"A","Q","=","=">>, <<"A","g","=","=">>, <<"A","A","=","=">>,
    <<"A","Q">>, <<>> }

ImageTexts ==
  B64Texts \cup {DataUrlHeader \o d : d \in B64Texts} \cup {DataImagePrefix}

Body(kind, text) == [kind |-> kind, text |-> text]

PredictBodies ==
  {Body(k, <<>>) : k \in {"null", "list", "nofield", "num"}}
  \cup {Body("str", t) : t \in ImageTexts}

UrlBodies == {Body(k, <<>>) : k \in {"null", "list", "nofield", "url"}}

RequestExceptions == {"ConnectionError", "Timeout", "HTTPError", "MissingSchema"}

Contents == {<<1>>, <<2>>, <<0>>}

NetOutcomes ==
  {[kind |-> e, content |-> <<>>] : e \in RequestExceptions}
  \cup {[kind |-> "ok", content |-> c] : c \in Contents}

NoNet == [kind |-> "none", content |-> <<>>]

Request(endpoint, body, net) == [endpoint |-> endpoint, body |-> body, net |-> net]

----------------------------------------------------------------------------
(* The service                                                             *)

Init ==
  /\ phase = "init"
  /\ model = None
  /\ lastReq = None
  /\ lastResp = None
  /\ pinned = None

\* module import, line 124: PlantDiseaseModel('plant_disease_model.pth')
Startup ==
  /\ phase = "init"
  /\ \E file \in ModelFiles, seed \in 0..(NumClasses - 1) :
       model' = load_model(file, seed)
  /\ phase' = "serving"
  /\ UNCHANGED <<lastReq, lastResp, pinned>>

\* every value self.model can hold once load_model has returned
Models == {load_model(file, seed) : file \in ModelFiles, seed \in 0..(NumClasses - 1)}

\* the handlers' answers, computed once per input and installed model
PredictAnswers == [mdl \in Models |-> [body \in PredictBodies |-> predict(body, mdl)]]

UrlAnswers ==
  [mdl \in Models |->
     [body \in UrlBodies |->
        [net \in NetOutcomes \cup {NoNet} |-> predict_from_url(body, net, mdl)]]]

\* an earlier exchange kept for comparison with later ones: either the one
\* already kept or the one just before this request, if that one carried a
\* bare base64 text or fetched a body
Pinnable ==
  /\ lastReq # None
  /\ \/ /\ lastReq[1].endpoint = "predict"
        /\ lastReq[1].body.kind = "str"
        /\ ~StartsWith(lastReq[1].body.text, DataImagePrefix)
     \/ lastReq[1].endpoint = "predict_url" /\ lastReq[1].net.kind = "ok"

Pin ==
  \/ pinned' = pinned
  \/ Pinnable /\ pinned' = Some([req |-> lastReq[1], resp |-> lastResp[1]])

HealthCheck ==
  /\ phase = "serving"
  /\ lastReq' = Some(Request("health", Body("none", <<>>), NoNet))
  /\ lastResp' = Some(health_check(model))
  /\ Pin
  /\ UNCHANGED <<phase, model>>

Predict ==
  /\ phase = "serving"
  /\ \E body \in PredictBodies :
       LET resp == PredictAnswers[model][body] IN
         /\ lastReq' = Some(Request("predict", body, NoNet))
         /\ lastResp' = Some(resp)
         /\ model' = IF resp.invoked > 0 THEN SelfModelAfterPredict(model) ELSE model
  /\ Pin
  /\ UNCHANGED phase

PredictFromUrl ==
  /\ phase = "serving"
  /\ \E body \in UrlBodies :
       \E net \in (IF body.kind = "url" THEN NetOutcomes ELSE {NoNet}) :
         LET resp == UrlAnswers[model][body][net] IN
           /\ lastReq' = Some(Request("predict_url", body, net))
           /\ lastResp' = Some(resp)
           /\ model' = IF resp.invoked > 0 THEN SelfModelAfterPredict(model) ELSE model
  /\ Pin
  /\ UNCHANGED phase

Next == Startup \/ HealthCheck \/ Predict \/ PredictFromUrl

Spec == Init /\ [][Next]_vars

----------------------------------------------------------------------------
(* Properties                                                              *)

Served == lastReq # None
Req == lastReq[1]
Resp == lastResp[1]

\* what the client sees of a response
Answer(resp) == [status |-> resp.status, error |-> resp.error, result |-> resp.result]

\* the image a request hands to model_service.predict, if it gets that far
ImageOf(req) ==
  IF req.endpoint = "predict" /\ req.body.kind = "str"
    THEN LET stripped == StripDataUrl(req.body.text)
             decoded  == b64decode(stripped.text)
         IN IF stripped.ok /\ decoded.ok /\ IsImage(decoded.bytes)
              THEN Some(decoded.bytes) ELSE None
  ELSE IF req.endpoint = "predict_url" /\ req.body.kind = "url"
          /\ req.net.kind = "ok" /\ IsImage(req.net.content)
    THEN Some(req.net.content)
  ELSE None

\* C1: every POST /predict whose body has no image field is answered 400
\* with the error "No image provided", and the model is not invoked for it.
C1_MissingImageIs400 ==
  (Served /\ Req.endpoint = "predict" /\ Req.body.kind \in {"null", "list", "nofield"})
    => /\ Resp.status = 400
       /\ Resp.error = <<"No image provided">>
       /\ Resp.invoked = 0

\* C2: once startup has finished, by the load path or by the fallback path,
\* the model is set and every GET /health is answered 200 with status
\* "healthy" and model_loaded true, whatever requests came before.
C2_HealthReportsLoaded ==
  /\ phase = "serving" => model # None
  /\ (Served /\ Req.endpoint = "health")
       => /\ Resp.status = 200
          /\ Resp.health = Some([status |-> "healthy", model_loaded |-> TRUE])

C2_Witness ==
  /\ Served /\ Req.endpoint = "health"
  /\ model # None /\ model[1].kind = "dummy"
  /\ pinned # None /\ pinned[1].resp.status = 500
  /\ Resp.status = 200

\* "___" stands at position i of the label
DelimiterAt(label, i) ==
  /\ i + 2 <= Len(label)
  /\ label[i] = "_" /\ label[i + 1] = "_" /\ label[i + 2] = "_"

\* the first position at which the delimiter starts, Len + 1 if there is none
FirstDelimiter(label) ==
  IF \E i \in 1..Len(label) : DelimiterAt(label, i)
    THEN CHOOSE i \in 1..Len(label) :
           /\ DelimiterAt(label, i)
           /\ \A k \in 1..(i - 1) : ~DelimiterAt(label, k)
    ELSE Len(label) + 1

Spaced(s) == [i \in 1..Len(s) |-> IF s[i] = "_" THEN " " ELSE s[i]]

SaysHealthy(label) ==
  \E i \in 1..Len(label) :
    /\ i + 6 <= Len(label)
    /\ \A k \in 1..7 : LowerChar(label[i + k - 1]) = HealthyStr[k]

\* what the claim says the record of a label is
LabelDecomposed(r) ==
  LET label == r.className
      first == FirstDelimiter(label)
      rest  == SubSeq(label, first + 3, Len(label))
      second == SubSeq(rest, 1, FirstDelimiter(rest) - 1)
  IN /\ r.isHealthy <=> SaysHealthy(label)
     /\ r.plantType = Spaced(SubSeq(label, 1, first - 1))
     /\ r.diseaseType # None <=> (~SaysHealthy(label) /\ first <= Len(label))
     /\ r.diseaseType # None => r.diseaseType = Some(Spaced(second))

AllLabelsDecomposed ==
  \A i \in 1..NumClasses : LabelDecomposed(DiagnosisResult(CLASS_NAMES[i], 0))

\* C3: for every label of the catalog the record built for it has isHealthy
\* iff the lower-cased label contains "healthy", plantType the part before
\* the first "___" with underscores as spaces, and diseaseType present iff the
\* label is not healthy and has a second segment, which it then is; and so
\* has every record a request is answered with.
C3_LabelDecomposition ==
  /\ AllLabelsDecomposed
  /\ (Served /\ Resp.result # None)
       => /\ \E i \in 1..NumClasses : CLASS_NAMES[i] = Resp.result[1].className
          /\ LabelDecomposed(Resp.result[1])

C3_Witness ==
  /\ Served /\ Resp.status = 200 /\ Resp.result # None
  /\ Resp.result[1].className = CLASS_NAMES[7]
  /\ ~Resp.result[1].isHealthy
  /\ Resp.result[1].plantType # SubSeq(CLASS_NAMES[7], 1, Len(Resp.result[1].plantType))
  /\ Resp.result[1].diseaseType # None

\* C4: every POST /predict whose image text is base64 of a decodable image
\* is answered 200 with the label at the argmax index and a confidence in
\* [0,1], whichever model startup installed.  Stated here for the installed
\* models whose forward pass returns, which is where it is decided.
C4_ValidImageIs200 ==
  (Served /\ Req.endpoint = "predict" /\ ImageOf(Req) # None /\ model[1].forwardOk)
    => /\ Resp.status = 200
       /\ Resp.result # None
       /\ Argmax(model[1], ImageOf(Req)[1]) < NumClasses
       /\ Resp.result[1].className = CLASS_NAMES[Argmax(model[1], ImageOf(Req)[1]) + 1]
       /\ Resp.result[1].confidence \in 0..ConfScale

\* a text over the base64 alphabet and its padding character
IsBase64Text(d) == \A i \in 1..Len(d) : IsB64Char(d[i]) \/ d[i] = "="

\* all base64 texts of up to MaxTextLen characters over a few characters
MaxTextLen == 4
ShortTexts == UNION {[1..n -> {"A", "Q", "/", "="}] : n \in 0..MaxTextLen}

\* the header is taken off every short text and nothing else of it changes
HeaderStrippedFromShortTexts ==
  \A d \in ShortTexts :
    /\ StripDataUrl(DataUrlHeader \o d) = [ok |-> TRUE, text |-> d]
    /\ StripDataUrl(d) = [ok |-> TRUE, text |-> d]

C6_FetchFailureIs400 ==
  (Served /\ Req.endpoint = "predict_url" /\ Req.body.kind = "url")
    => /\ Resp.fetches = 1
       /\ Req.net.kind \in RequestExceptions
            => /\ Resp.status = 400
               /\ Resp.error # None
               /\ Resp.invoked = 0
       /\ Req.net.kind = "ok"
            => /\ Resp.status \in {200, 500}
               /\ Resp.status = 200 <=>
                    /\ IsImage(Req.net.content)
                    /\ PlantDiseaseModel_predict(model, Req.net.content) # None

C6_Witness ==
  /\ Served /\ Req.endpoint = "predict_url" /\ Req.body.kind = "url"
  /\ Req.net.kind = "Timeout"
  /\ Resp.status = 400 /\ Resp.fetches = 1
  /\ pinned # None /\ pinned[1].req.endpoint = "predict_url"
  /\ pinned[1].resp.status = 500 /\ pinned[1].resp.invoked = 0

SameImageSameAnswer ==
  (/\ Served /\ pinned # None
   /\ ImageOf(Req) # None
   /\ ImageOf(Req) = ImageOf(pinned[1].req))
    => Answer(Resp) = Answer(pinned[1].resp)

C8_AbsentResultIs500 ==
  (Served /\ Req.endpoint \in {"predict", "predict_url"})
    => /\ (ImageOf(Req) # None /\ ~model[1].forwardOk)
            => /\ Resp.invoked = 1
               /\ Resp.status = 500
               /\ Resp.error = <<"Prediction failed">>
       /\ (Resp.invoked = 1 /\ Resp.result = None)
            => /\ Resp.status = 500
               /\ Resp.error = <<"Prediction failed">>
       /\ Resp.status = 200 => (Resp.result # None /\ Resp.invoked = 1)

C8_Witness ==
  /\ Served /\ Req.endpoint = "predict_url"
  /\ ImageOf(Req) # None /\ ~model[1].forwardOk
  /\ Resp.status = 500 /\ Resp.error = <<"Prediction failed">>

CatalogDistinct ==
  \A i, j \in 1..NumClasses : i # j => CLASS_NAMES[i] # CLASS_NAMES[j]

\* C9: the label catalog holds pairwise distinct labels, so the mapping from
\* class index to label is injective.
C9_LabelsDistinct == phase = "serving" => CatalogDistinct

\* C10: after startup, on the load path and on the fallback path, the
\* installed model has as many outputs as the catalog has labels, so every
\* index it can produce is an index of the catalog.
C10_OutputsMatchCatalog ==
  phase = "serving" => (model # None /\ model[1].outDim = NumClasses)

====
